---- MODULE Spec2Model ----
(***************************************************************************)
(* Signalling relay of src/app.py: the in-memory room registry ROOMS, the  *)
(* Socket.IO rooms that emit() addresses, and the four event handlers      *)
(* join / leave / disconnect / signal.                                     *)
(*                                                                         *)
(* Strings are modelled as numbers.  0 is the empty (or missing) string,   *)
(* 1..NumHandles are the session ids the transport hands out, and the      *)
(* number above them is another string a client may type.  A room name and *)
(* a signal target are client-supplied strings: nothing in the code keeps  *)
(* them apart from session ids.                                            *)
(***************************************************************************)
EXTENDS Integers, Sequences, FiniteSets, TLC

NumHandles == 3
\* number of events (connects included) a run of the model handles
MaxSteps == 6

EmptyStr == 0
Handles == 1..NumHandles
\* a room name typed by a client that is no session id
PlainStrings == {NumHandles + 1}
Strings == Handles \cup PlainStrings

\* display names a client may send ("" stands for a missing or empty name)
NameInputs == {"", "ann"}
\* signal payloads a client may send ("" stands for a missing or empty one)
SignalInputs == {"", "sdp"}

VARIABLES
    ROOMS,    \* the registry, in dict insertion order: <<[room, members]>>,
              \* members in dict insertion order: <<[sid, name]>>
    conn,     \* per session id: "new" (not yet issued), "live", "gone"
    trooms,   \* Socket.IO room -> set of session ids in it
    last,     \* the request handled by the last step
    out,      \* the emits of the last step, in order, with their receivers
    pre,      \* ROOMS and trooms as they were when the last step began
    nsteps,   \* number of events handled so far
    pc,       \* per session id: where its leave or disconnect handler is
              \* suspended, [at |-> "idle"] when it is not
    gen       \* room name -> number of dicts created so far as ROOMS[room]

vars == <<ROOMS, conn, trooms, last, out, pre, nsteps, pc, gen>>

----------------------------------------------------------------------------
\* dict helpers

Keys(R) == {R[i].room : i \in 1..Len(R)}

Index(R, room) == CHOOSE i \in 1..Len(R) : R[i].room = room

Members(R, room) == R[Index(R, room)].members

Sids(ms) == {ms[i].sid : i \in 1..Len(ms)}

NameOf(ms, sid) == (ms[CHOOSE i \in 1..Len(ms) : ms[i].sid = sid]).name

MemberSet(R, room) == IF room \in Keys(R) THEN Sids(Members(R, room)) ELSE {}

RoomsOf(R, sid) == {room \in Keys(R) : sid \in MemberSet(R, room)}

\* del d[k] on an insertion-ordered dict held as a sequence
DelAt(s, i) == [j \in 1..(Len(s) - 1) |-> IF j < i THEN s[j] ELSE s[j + 1]]

Live == {h \in Handles : conn[h] = "live"}

\* strings a client can know: typed text and session ids already issued
Known == PlainStrings \cup {h \in Handles : conn[h] # "new"}

----------------------------------------------------------------------------
\* the transport (Flask-SocketIO / python-socketio) as the handlers use it

\* join_room(room): the calling session enters the Socket.IO room
join_room(T, sid, room) == [T EXCEPT ![room] = @ \cup {sid}]

\* leave_room(room): the calling session leaves the Socket.IO room
leave_room(T, sid, room) == [T EXCEPT ![room] = @ \ {sid}]

\* emit(event, data, room=to, skip_sid=skip): one packet to every session in
\* Socket.IO room `to` except skip; only sessions in `alive` can receive it
emit(T, alive, event, data, to, skip) ==
    [event |-> event, to |-> to, data |-> data,
     rcpt |-> (T[to] \cap alive) \ skip]

----------------------------------------------------------------------------
\* handle_join

\* name = data.get('name') or 'Anonymous'
JoinName(name) == IF name = "" THEN "Anonymous" ELSE name

\* if room not in ROOMS: ROOMS[room] = {}
CreateRoom(R, room) ==
    IF room \in Keys(R) THEN R
    ELSE Append(R, [room |-> room, members |-> <<>>])

\* existing, with the comprehension running over every room of the registry
\* instead of ROOMS[room] only
existing_AllRooms(R, room) ==
    LET RECURSIVE cat(_)
        cat(i) == IF i > Len(R) THEN <<>> ELSE R[i].members \o cat(i + 1)
    IN cat(1)

\* existing = [{'sid': s, 'name': ROOMS[room][s]['name']} for s in ROOMS[room]]
existing(R, room) == Members(R, room)

\* ROOMS[room][sid] = {'name': name}: an existing key keeps its position
AddUser(R, room, sid, name) ==
    LET i == Index(R, room)
        ms == R[i].members
        ms2 == IF sid \in Sids(ms)
               THEN [j \in 1..Len(ms) |->
                        IF ms[j].sid = sid THEN [sid |-> sid, name |-> name]
                        ELSE ms[j]]
               ELSE Append(ms, [sid |-> sid, name |-> name])
    IN [R EXCEPT ![i].members = ms2]

handle_join(sid, room, nameIn) ==
    /\ conn[sid] = "live"
    /\ last' = [op |-> "join", sid |-> sid, room |-> room, name |-> nameIn]
    /\ IF room = EmptyStr
       THEN /\ out' = <<emit(trooms, Live, "error",
                             [error |-> "no room specified"], sid, {})>>
            /\ UNCHANGED <<ROOMS, conn, trooms>>
       ELSE LET name == JoinName(nameIn)
                R1 == CreateRoom(ROOMS, room)
                peers == existing(R1, room)
                R2 == AddUser(R1, room, sid, name)
                T2 == join_room(trooms, sid, room)
            IN /\ ROOMS' = R2
               /\ trooms' = T2
               /\ out' = <<emit(T2, Live, "joined",
                                [peers |-> peers,
                                 you |-> [sid |-> sid, name |-> name],
                                 room |-> room], sid, {}),
                           emit(T2, Live, "new-participant",
                                [sid |-> sid, name |-> name], room, {sid})>>
               /\ UNCHANGED conn

----------------------------------------------------------------------------
\* handle_leave / handle_disconnect

\* for room, members in list(ROOMS.items()): if sid in members: ... break
FirstRoomOf(R, sid) ==
    LET I == {i \in 1..Len(R) : sid \in Sids(R[i].members)}
    IN IF I = {} THEN 0 ELSE CHOOSE i \in I : \A j \in I : i <= j

\* RemoveMember without the `if len(members) == 0: del ROOMS[room]`
RemoveMember_KeepEmpty(R, i, sid) ==
    LET ms == R[i].members
        k == CHOOSE j \in 1..Len(ms) : ms[j].sid = sid
    IN [R EXCEPT ![i].members = DelAt(ms, k)]

\* del members[sid]; if len(members) == 0: del ROOMS[room]
RemoveMember(R, i, sid) ==
    LET ms == R[i].members
        k == CHOOSE j \in 1..Len(ms) : ms[j].sid = sid
        ms2 == DelAt(ms, k)
    IN IF Len(ms2) = 0 THEN DelAt(R, i) ELSE [R EXCEPT ![i].members = ms2]

\* LeaveBody with the emit moved out of the `if sid in members`: a handle found
\* in no room is still announced, to the last room the loop looked at
LeaveBody_EmitAlways(sid, alive, T) ==
    LET i == FirstRoomOf(ROOMS, sid)
    IN IF i = 0
       THEN [R |-> ROOMS, T |-> T,
             out |-> IF Len(ROOMS) = 0 THEN <<>>
                     ELSE <<emit(T, alive, "participant-left",
                                 [sid |-> sid, name |-> "Anonymous"],
                                 ROOMS[Len(ROOMS)].room, {})>>]
       ELSE LET room == ROOMS[i].room
                name == NameOf(ROOMS[i].members, sid)
                T1 == leave_room(T, sid, room)
            IN [R |-> RemoveMember(ROOMS, i, sid),
                T |-> T1,
                out |-> <<emit(T1, alive, "participant-left",
                               [sid |-> sid, name |-> name], room, {})>>]

\* the loop of handle_leave; alive is the set of sessions that can still
\* receive a packet
LeaveBody(sid, alive, T) ==
    LET i == FirstRoomOf(ROOMS, sid)
    IN IF i = 0
       THEN [R |-> ROOMS, T |-> T, out |-> <<>>]
       ELSE LET room == ROOMS[i].room
                name == NameOf(ROOMS[i].members, sid)
                T1 == leave_room(T, sid, room)
            IN [R |-> RemoveMember(ROOMS, i, sid),
                T |-> T1,
                out |-> <<emit(T1, alive, "participant-left",
                               [sid |-> sid, name |-> name], room, {})>>]

handle_leave(sid) ==
    /\ conn[sid] = "live"
    /\ last' = [op |-> "leave", sid |-> sid]
    /\ LET b == LeaveBody(sid, Live, trooms)
       IN /\ ROOMS' = b.R
          /\ trooms' = b.T
          /\ out' = b.out
    /\ UNCHANGED conn

\* DisconnectBody without the `if len(members) == 0: del ROOMS[room]`
DisconnectBody_KeepEmpty(sid, alive, T) ==
    LET i == FirstRoomOf(ROOMS, sid)
    IN IF i = 0
       THEN [R |-> ROOMS, T |-> T, out |-> <<>>]
       ELSE LET room == ROOMS[i].room
                name == NameOf(ROOMS[i].members, sid)
                T1 == leave_room(T, sid, room)
            IN [R |-> RemoveMember_KeepEmpty(ROOMS, i, sid),
                T |-> T1,
                out |-> <<emit(T1, alive, "participant-left",
                               [sid |-> sid, name |-> name], room, {})>>]

\* the loop of handle_disconnect, a second copy of the one of handle_leave
DisconnectBody(sid, alive, T) ==
    LET I == {i \in 1..Len(ROOMS) : sid \in Sids(ROOMS[i].members)}
    IN IF I = {}
       THEN [R |-> ROOMS, T |-> T, out |-> <<>>]
       ELSE LET i == CHOOSE k \in I : \A j \in I : k <= j
                room == ROOMS[i].room
                members == ROOMS[i].members
                name == NameOf(members, sid)
                T1 == leave_room(T, sid, room)
                at == CHOOSE k \in 1..Len(members) : members[k].sid = sid
                left == DelAt(members, at)
            IN [R |-> IF Len(left) = 0 THEN DelAt(ROOMS, i)
                      ELSE [ROOMS EXCEPT ![i].members = left],
                T |-> T1,
                out |-> <<emit(T1, alive, "participant-left",
                               [sid |-> sid, name |-> name], room, {})>>]

\* the transport runs the handler when the connection is lost, then drops
\* the session from every Socket.IO room; the lost connection receives nothing
handle_disconnect(sid) ==
    /\ conn[sid] = "live"
    /\ last' = [op |-> "disconnect", sid |-> sid]
    /\ LET b == DisconnectBody(sid, Live \ {sid}, trooms)
       IN /\ ROOMS' = b.R
          /\ trooms' = [s \in Strings |-> b.T[s] \ {sid}]
          /\ out' = b.out
    /\ conn' = [conn EXCEPT ![sid] = "gone"]

----------------------------------------------------------------------------
\* handle_signal

\* handle_signal with a join_room(to) before the emit
handle_signal_JoinsTarget(sid, to, signal) ==
    /\ conn[sid] = "live"
    /\ last' = [op |-> "signal", sid |-> sid, to |-> to, signal |-> signal]
    /\ IF to = EmptyStr \/ signal = ""
       THEN out' = <<>> /\ UNCHANGED trooms
       ELSE /\ trooms' = join_room(trooms, sid, to)
            /\ out' = <<emit(trooms', Live, "signal",
                             [from |-> sid, signal |-> signal], to, {})>>
    /\ UNCHANGED <<ROOMS, conn>>

handle_signal(sid, to, signal) ==
    /\ conn[sid] = "live"
    /\ last' = [op |-> "signal", sid |-> sid, to |-> to, signal |-> signal]
    /\ IF to = EmptyStr \/ signal = ""
       THEN out' = <<>>
       ELSE out' = <<emit(trooms, Live, "signal",
                          [from |-> sid, signal |-> signal], to, {})>>
    /\ UNCHANGED <<ROOMS, conn, trooms>>

----------------------------------------------------------------------------
\* a client connects: the transport issues a fresh session id (the ids are
\* opaque, so they are issued in increasing order) and puts the session in
\* the Socket.IO room named after it
Connect(sid) ==
    /\ conn[sid] = "new"
    /\ \A h \in Handles : h < sid => conn[h] # "new"
    /\ conn' = [conn EXCEPT ![sid] = "live"]
    /\ trooms' = join_room(trooms, sid, sid)
    /\ last' = [op |-> "connect", sid |-> sid]
    /\ out' = <<>>
    /\ UNCHANGED ROOMS

Init ==
    /\ ROOMS = <<>>
    /\ conn = [h \in Handles |-> "new"]
    /\ trooms = [s \in Strings |-> {}]
    /\ last = [op |-> "init"]
    /\ out = <<>>
    /\ pre = [ROOMS |-> <<>>, trooms |-> [s \in Strings |-> {}]]
    /\ nsteps = 0
    /\ pc = [h \in Handles |-> [at |-> "idle"]]
    /\ gen = [s \in Strings |-> 0]

\* one more event is handled
Count ==
    /\ nsteps < MaxSteps
    /\ nsteps' = nsteps + 1
    /\ pre' = [ROOMS |-> ROOMS, trooms |-> trooms]

\* a handler runs from its first line to its last without being suspended
Step == Count /\ UNCHANGED <<pc, gen>>

Join == Step /\ \E sid \in Handles : \E room \in Known \cup {EmptyStr} :
            \E n \in NameInputs : handle_join(sid, room, n)

Leave == Step /\ \E sid \in Handles : handle_leave(sid)

Disconnect == Step /\ \E sid \in Handles : handle_disconnect(sid)

Signal == Step /\ \E sid \in Handles : \E to \in Known \cup {EmptyStr} :
            \E s \in SignalInputs : handle_signal(sid, to, s)

Conn == Step /\ \E sid \in Handles : Connect(sid)

Next == Conn \/ Join \/ Leave \/ Disconnect \/ Signal

Spec == Init /\ [][Next]_vars

----------------------------------------------------------------------------
\* The handlers as green threads: a leave or disconnect handler may be
\* suspended at its emit, between `del members[sid]` and the
\* `if len(members) == 0` that follows.  handle_join mutates ROOMS only before
\* its first emit, so its effect on the registry is a single step.

\* del members[sid]
DelMember(R, i, sid) ==
    LET ms == R[i].members
        k == CHOOSE j \in 1..Len(ms) : ms[j].sid = sid
    IN [R EXCEPT ![i].members = DelAt(ms, k)]

\* the handler up to and including its emit; `members` stays bound to the
\* dict that was ROOMS[room] when the loop found it
LeaveBegin(sid, op) ==
    /\ pc[sid].at = "idle"
    /\ conn[sid] = "live"
    /\ LET i == FirstRoomOf(ROOMS, sid)
       IN IF i = 0
          THEN /\ last' = [op |-> op, sid |-> sid]
               /\ out' = <<>>
               /\ UNCHANGED <<ROOMS, pc>>
               /\ trooms' = IF op = "disconnect"
                            THEN [s \in Strings |-> trooms[s] \ {sid}]
                            ELSE trooms
          ELSE LET room == ROOMS[i].room
                   name == NameOf(ROOMS[i].members, sid)
                   T1 == leave_room(trooms, sid, room)
                   R1 == DelMember(ROOMS, i, sid)
               IN /\ ROOMS' = R1
                  /\ trooms' = T1
                  /\ out' = <<emit(T1, Live \ {sid}, "participant-left",
                                   [sid |-> sid, name |-> name], room, {})>>
                  /\ pc' = [pc EXCEPT ![sid] =
                              [at |-> "check", op |-> op, room |-> room,
                               gen |-> gen[room], snap |-> R1[i].members]]
                  /\ last' = [op |-> op \o "_begin", sid |-> sid]
    /\ conn' = IF op = "disconnect" THEN [conn EXCEPT ![sid] = "gone"]
               ELSE conn
    /\ UNCHANGED gen

\* the handler resumes: if len(members) == 0: del ROOMS[room]
LeaveEnd(sid) ==
    /\ pc[sid].at = "check"
    /\ LET room == pc[sid].room
           current == room \in Keys(ROOMS) /\ gen[room] = pc[sid].gen
           \* a dict that is no longer ROOMS[room] was empty when it was
           \* dropped, and no handler adds to it afterwards
           empty == IF current THEN Len(Members(ROOMS, room)) = 0 ELSE TRUE
           keyerror == empty /\ room \notin Keys(ROOMS)
           deleted == empty /\ room \in Keys(ROOMS)
       IN /\ ROOMS' = IF deleted THEN DelAt(ROOMS, Index(ROOMS, room))
                      ELSE ROOMS
          /\ last' = [op |-> pc[sid].op \o "_end", sid |-> sid,
                      room |-> room, deleted |-> deleted,
                      keyerror |-> keyerror,
                      serial |-> current
                                 /\ Members(ROOMS, room) = pc[sid].snap]
    /\ trooms' = IF pc[sid].op = "disconnect"
                 THEN [s \in Strings |-> trooms[s] \ {sid}]
                 ELSE trooms
    /\ pc' = [pc EXCEPT ![sid] = [at |-> "idle"]]
    /\ out' = <<>>
    /\ UNCHANGED <<conn, gen>>

JoinConc ==
    /\ Count
    /\ \E sid \in Handles : \E room \in Known \cup {EmptyStr} :
         \E n \in NameInputs :
            /\ pc[sid].at = "idle"
            /\ handle_join(sid, room, n)
            /\ gen' = IF room # EmptyStr /\ room \notin Keys(ROOMS)
                      THEN [gen EXCEPT ![room] = @ + 1] ELSE gen
    /\ UNCHANGED pc

LeaveStart == Count /\ \E sid \in Handles : LeaveBegin(sid, "leave")

DisconnectStart == Count /\ \E sid \in Handles : LeaveBegin(sid, "disconnect")

Resume == Count /\ \E sid \in Handles : LeaveEnd(sid)

NextConc == Conn \/ JoinConc \/ LeaveStart \/ DisconnectStart \/ Resume

SpecConc == Init /\ [][NextConc]_vars

----------------------------------------------------------------------------
\* properties

\* the emits in o of the given event that session h received
Received(o, h, event) ==
    {i \in 1..Len(o) : o[i].event = event /\ h \in o[i].rcpt}

\* the emits in o of the given event
Emitted(o, event) == {i \in 1..Len(o) : o[i].event = event}

\* the last step was a join that got past the room-name check
Joined == last.op = "join" /\ last.room # EmptyStr

\* the last step was a leave or a disconnect
Left == last.op \in {"leave", "disconnect"}

\* C1: a join of a room name that is not a key of ROOMS emits one 'joined'
\* reply, addressed to the joining handle, whose peers list is empty, and
\* afterwards ROOMS holds the room with exactly the joining handle in it.
C1_JoinNewRoom ==
    (Joined /\ last.room \notin Keys(pre.ROOMS))
    => /\ Emitted(out, "joined") = {1}
       /\ out[1].to = last.sid
       /\ out[1].data.peers = <<>>
       /\ last.room \in Keys(ROOMS)
       /\ Len(Members(ROOMS, last.room)) = 1
       /\ MemberSet(ROOMS, last.room) = {last.sid}

\* a join has just created a room while another room has members
C1_Witness ==
    /\ Joined
    /\ last.room \notin Keys(pre.ROOMS)
    /\ Len(pre.ROOMS) >= 1
    /\ MemberSet(ROOMS, last.room) = {last.sid}

\* C2: when B joins a room whose member set M is non-empty and does not hold
\* B, the 'joined' reply lists exactly M with the registered names, every
\* handle of M receives exactly one 'new-participant' event, naming B, and B
\* receives none.
C2_JoinNotifiesMembers ==
    (Joined /\ MemberSet(pre.ROOMS, last.room) # {}
       /\ last.sid \notin MemberSet(pre.ROOMS, last.room))
    => /\ Emitted(out, "joined") = {1}
       /\ out[1].data.peers = Members(pre.ROOMS, last.room)
       /\ \A m \in MemberSet(pre.ROOMS, last.room) :
            /\ Cardinality(Received(out, m, "new-participant")) = 1
            /\ \A i \in Received(out, m, "new-participant") :
                 out[i].data.sid = last.sid
       /\ Received(out, last.sid, "new-participant") = {}

\* C3: the peers list of a 'joined' reply never holds the handle the reply
\* is sent to.
C3_PeersExcludeSelf ==
    Joined => \A i \in Emitted(out, "joined") :
                last.sid \notin Sids(out[i].data.peers)

\* C4: each session handle is in the member set of at most one room.
C4_AtMostOneRoom ==
    \A h \in Handles : Cardinality(RoomsOf(ROOMS, h)) <= 1

\* C5: after the leave or disconnect handler of a handle, the handle is a
\* member of no room of the registry.
C5_LeaveRemovesEverywhere ==
    Left => RoomsOf(ROOMS, last.sid) = {}

\* C6: when a member h of room r leaves or disconnects, every handle that
\* remains in r's member set receives exactly one 'participant-left' event,
\* carrying h and h's registered name, and h receives none.
C6_LeaveNotifiesRemaining ==
    Left => \A r \in RoomsOf(pre.ROOMS, last.sid) :
              /\ \A m \in MemberSet(pre.ROOMS, r) \ {last.sid} :
                   /\ Cardinality(Received(out, m, "participant-left")) = 1
                   /\ \A i \in Received(out, m, "participant-left") :
                        /\ out[i].data.sid = last.sid
                        /\ out[i].data.name =
                             NameOf(Members(pre.ROOMS, r), last.sid)
              /\ Received(out, last.sid, "participant-left") = {}

\* C7: every key of ROOMS maps to a non-empty member set; a key appears only
\* by a join to that room, and disappears only by the leave or disconnect of
\* its last member.
C7_RoomIffMembers ==
    /\ \A i \in 1..Len(ROOMS) : Len(ROOMS[i].members) >= 1
    /\ \A r \in Strings :
         /\ (r \notin Keys(pre.ROOMS) /\ r \in Keys(ROOMS))
              => (Joined /\ last.room = r)
         /\ (r \in Keys(pre.ROOMS) /\ r \notin Keys(ROOMS))
              => (Left /\ MemberSet(pre.ROOMS, r) = {last.sid})

\* the last member of a room has just left it while another room remains
C7_Witness ==
    /\ Left
    /\ \E r \in Keys(pre.ROOMS) : r \notin Keys(ROOMS)
    /\ Len(ROOMS) >= 1

\* C8: a signal with target t is received by no connection other than the
\* one whose session handle is t.
C8_SignalOnlyToTarget ==
    last.op = "signal"
    => \A i \in Emitted(out, "signal") : out[i].rcpt \subseteq {last.to}

\* C9: a signal with a non-empty payload whose target is a live connection
\* is received by the target exactly once, tagged with the sender and
\* carrying the payload.
C9_SignalReachesLiveTarget ==
    (last.op = "signal" /\ last.signal # "" /\ last.to \in Live)
    => /\ Cardinality(Received(out, last.to, "signal")) = 1
       /\ \A i \in Received(out, last.to, "signal") :
            out[i].data = [from |-> last.sid, signal |-> last.signal]

\* C10: a signal whose target is not a live connection delivers no event to
\* any connection and leaves the registry unchanged.
C10_UnknownTargetSilent ==
    (last.op = "signal" /\ last.to \notin Live)
    => /\ \A i \in 1..Len(out) : out[i].rcpt = {}
       /\ ROOMS = pre.ROOMS
       /\ trooms = pre.trooms

\* C11: a leave or disconnect of a handle that is registered in no room
\* leaves the registry unchanged and emits nothing.
C11_LeaveIdempotent ==
    (Left /\ RoomsOf(pre.ROOMS, last.sid) = {})
    => /\ ROOMS = pre.ROOMS
       /\ out = <<>>

\* a handle registered nowhere has left while other handles are registered
C11_Witness ==
    /\ Left
    /\ RoomsOf(pre.ROOMS, last.sid) = {}
    /\ Len(pre.ROOMS) >= 1
    /\ \E r \in Keys(pre.ROOMS) : pre.trooms[r] \cap Live # {}

\* what a handler result delivers: event, payload and receivers of each emit
Deliveries(o) ==
    {<<o[i].event, o[i].data, o[i].rcpt>> : i \in 1..Len(o)}

\* C12: from every reachable state, the disconnect handler of a live handle
\* yields the same registry and the same 'participant-left' deliveries as
\* its leave handler.
C12_DisconnectAsLeave ==
    \A h \in Live :
        LET l == LeaveBody(h, Live, trooms)
            d == DisconnectBody(h, Live \ {h}, trooms)
        IN /\ l.R = d.R
           /\ Deliveries(l.out) = Deliveries(d.out)

\* a live handle shares a room with a live handle that would be notified,
\* and another is the only member of its room
C12_Witness ==
    /\ \E h \in Live :
         LET d == DisconnectBody(h, Live \ {h}, trooms)
         IN Len(d.out) = 1 /\ d.out[1].rcpt # {}
    /\ \E h \in Live :
         Len(DisconnectBody(h, Live \ {h}, trooms).R) < Len(ROOMS)

\* C14: a join without a room name sends exactly one 'error' event, received
\* by the caller and by no one else, emits nothing else, and leaves the
\* registry and the Socket.IO rooms unchanged.
C14_JoinWithoutRoomRejected ==
    (last.op = "join" /\ last.room = EmptyStr)
    => /\ Len(out) = 1
       /\ out[1].event = "error"
       /\ out[1].rcpt = {last.sid}
       /\ ROOMS = pre.ROOMS
       /\ trooms = pre.trooms

\* C15: a signal request without its 'to' or its 'signal' field is answered
\* with an 'error' event to the caller.
C15_MalformedSignalRejected ==
    (last.op = "signal" /\ (last.to = EmptyStr \/ last.signal = ""))
    => \E i \in Emitted(out, "error") : out[i].to = last.sid

\* C16: when a suspended leave or disconnect handler resumes, the member
\* dict of its room is as the handler left it; the handler deletes no room
\* entry that has a member and none that is already absent.
C16_SameRoomSerialized ==
    last.op \in {"leave_end", "disconnect_end"}
    => /\ last.serial
       /\ ~last.keyerror
       /\ last.deleted => MemberSet(pre.ROOMS, last.room) = {}

\* C17: a 'new-participant' or 'participant-left' event about room r is
\* received by exactly the registry members of r other than the joining or
\* leaving handle.
C17_NotificationsStayInRoom ==
    /\ Joined => \A i \in Emitted(out, "new-participant") :
                   out[i].rcpt = MemberSet(ROOMS, last.room) \ {last.sid}
    /\ Left => \A i \in Emitted(out, "participant-left") :
                 out[i].rcpt = MemberSet(ROOMS, out[i].to) \ {last.sid}

\* C18: handling a signal request, well-formed or not, changes neither the
\* registry nor any Socket.IO room.
C18_SignalChangesNothing ==
    last.op = "signal" => (ROOMS = pre.ROOMS /\ trooms = pre.trooms)

\* a signal has been delivered while the registry holds a room
C18_Witness ==
    /\ last.op = "signal"
    /\ Len(out) = 1
    /\ out[1].rcpt # {}
    /\ Len(ROOMS) >= 1

\* C19: no disconnected handle is a member of a room, and once every
\* connection has disconnected the registry is empty.
C19_NoStaleMembership ==
    /\ \A h \in Handles : conn[h] = "gone" => RoomsOf(ROOMS, h) = {}
    /\ Live = {} => ROOMS = <<>>

\* C20: a signal to a live handle is received by it also when sender and
\* target share no room of the registry.
C20_SignalNeedsNoRoom ==
    (last.op = "signal" /\ last.to # EmptyStr /\ last.signal # ""
        /\ last.to \in Live
        /\ RoomsOf(ROOMS, last.sid) \cap RoomsOf(ROOMS, last.to) = {})
    => Cardinality(Received(out, last.to, "signal")) = 1

====
